---- MODULE Spec2Model ----
(***************************************************************************)
(* Job lifecycle of the TissueMAPS server: the start-up recovery of        *)
(* interrupted tasks (tmserver/appfactory.py) and the Jterator UI job      *)
(* endpoints (tmaps/jtui/api.py).                                          *)
(***************************************************************************)
EXTENDS Integers, Sequences, FiniteSets, TLC

(* ------------------------------ bounds -------------------------------- *)
\* rows of the Task table in a database found at start-up
MaxTasks == 2
\* rows of the Submission table in a database found at start-up
MaxSubmissions == 2
\* run_jobs requests the server receives, all of which may be in flight together
MaxRequests == 2
\* tasks and subtasks of a stored workflow, counted together
MaxWorkflowSize == 3
\* files in the module log directory
MaxFiles == 2
\* modules in the pipeline description of a request
MaxModules == 2
\* project directories under <JTUI_REPO_DIR_LOCATION>/pipes
MaxPipelines == 3
\* register_upload and upload_file requests the server receives, counted together
MaxUploadRequests == 3
\* rows of the microscope file tables of one experiment
MaxFileRows == 3
\* file names in data['files'] of one register_upload request
MaxRegisterFiles == 2

(* ----------------------------- constants ------------------------------ *)
\* a NULL column (ids are positive)
NULL == 0

\* gc3libs.Run.State
TaskStates ==
  {"NEW", "SUBMITTED", "RUNNING", "STOPPED", "TERMINATING", "TERMINATED", "UNKNOWN"}

\* Python's None where an object is expected
None == [is_none |-> TRUE]

\* ids of the experiments requests are made for
Experiments == {1, 2}
\* the values of data['jobIds'] requests are made with
JobIdSets == {{1, 2}}
Requests == 1..MaxRequests

VARIABLES
  \* main database
  submission_table,  \* Seq of [experiment_id, program, top_task_id]; id = index
  task_table,        \* Seq of [state, submission_id]; id = index
  \* create_app
  app_pc,            \* "init" | "loop" | "returned" | "raised"
  task_ids,          \* the list get_interrupted_tasks returned
  tid_idx,           \* position of the for loop in task_ids
  retrieved,         \* arguments of gc3pie.retrieve_task, in call order
  continued,         \* tasks passed to gc3pie.continue_task, in call order
  \* run_jobs / get_job_status
  req,               \* per run_jobs request: position, locals, calls made, response
  saved_projects,    \* experiments whose .pipe and .handles files are on disk
  batch_files,       \* batch files on disk, <<experiment id, job id>>
  engine_jobs,       \* job collections handed to the engine by gc3pie.submit_jobs
  status_response,   \* the last response of get_job_status
  kill_request,      \* data['taskId'] of the last kill_jobs request
  kill_response,     \* the last response of kill_jobs
  killed,            \* ids of the tasks the engine was told to kill
  \* get_job_output
  out_workflow,      \* what gc3pie.retrieve_jobs loads for the experiment, or None
  log_dir,           \* names of the files in jt.module_log_location
  output_request,    \* the last get_job_output request
  output_response,   \* the last response of get_job_output
  \* get_available_jtpipelines
  repo_pipes,        \* list_projects(<JTUI_REPO_DIR_LOCATION>/pipes)
  pipelines_response,\* the last response of get_available_jtpipelines
  \* register_upload / upload_file
  file_table,        \* Seq of [kind, name, acquisition_id, status]; id = index
  disk,              \* files written, <<acquisition id, kind, name>>
  saving,            \* ids of the rows whose f.save() is under way
  upload_seq,        \* number of register_upload and upload_file requests received
  upload_request,    \* the last upload_file request
  upload_response    \* the last response of register_upload or upload_file

dbVars == <<submission_table, task_table>>
appVars == <<app_pc, task_ids, tid_idx, retrieved, continued>>
jobVars == <<req, saved_projects, batch_files, engine_jobs, status_response>>
killVars == <<kill_request, kill_response, killed>>
outVars == <<out_workflow, log_dir, output_request, output_response>>
repoVars == <<repo_pipes, pipelines_response>>
upVars == <<file_table, disk, saving, upload_seq, upload_request, upload_response>>
\* what the start-up steps leave alone
notApp == <<dbVars, jobVars, killVars, outVars, repoVars, upVars>>
\* what run_jobs and get_job_status leave alone besides the database and jobVars
notJobs == <<appVars, killVars, outVars, repoVars, upVars>>

(* ----------------------------- helpers -------------------------------- *)
Range(s) == {s[i] : i \in 1..Len(s)}

\* all sequences that list the elements of the finite set S once each
Orderings(S) ==
  {s \in [1..Cardinality(S) -> S] : \A i, j \in 1..Cardinality(S) : s[i] = s[j] => i = j}

(* ------------------------ appfactory.py ------------------------------- *)

\* session.query(tm.Submission.top_task_id).all()
TopTaskIds(subs) == {subs[s].top_task_id : s \in 1..Len(subs)}

\* the docstring's reading: only STOPPED and TERMINATED are left out
InterruptedTaskIds_Docstring(subs, tasks) ==
  {t \in 1..Len(tasks) :
     /\ t \in TopTaskIds(subs)
     /\ tasks[t].state \notin {"STOPPED", "TERMINATED"}}

\* get_interrupted_tasks: the rows the query selects
InterruptedTaskIds(subs, tasks) ==
  {t \in 1..Len(tasks) :
     /\ t \in TopTaskIds(subs)
     /\ tasks[t].state \notin {"STOPPED", "TERMINATED", "TERMINATING"}}

\* gc3pie.retrieve_task(tid): the task object loaded from the store
retrieve_task(tid) == [persistent_id |-> tid]

\* task_ids = get_interrupted_tasks(); the query has no ORDER BY
CreateAppQuery ==
  /\ app_pc = "init"
  /\ task_ids' \in Orderings(InterruptedTaskIds(submission_table, task_table))
  /\ tid_idx' = 1
  /\ app_pc' = "loop"
  /\ UNCHANGED <<retrieved, continued, notApp>>

\* the turn run twice for one id
ContinueStep_Twice ==
  /\ retrieved' = Append(retrieved, task_ids[tid_idx])
  /\ continued' = continued \o <<retrieve_task(task_ids[tid_idx]),
                                  retrieve_task(task_ids[tid_idx])>>
  /\ tid_idx' = tid_idx + 1

\* one turn of `for tid in task_ids`
ContinueStep ==
  /\ retrieved' = Append(retrieved, task_ids[tid_idx])
  /\ continued' = Append(continued, retrieve_task(task_ids[tid_idx]))
  /\ tid_idx' = tid_idx + 1

CreateAppContinue ==
  /\ app_pc = "loop"
  /\ tid_idx <= Len(task_ids)
  /\ ContinueStep
  /\ UNCHANGED <<app_pc, task_ids, notApp>>

\* retrieve_task or continue_task raises: create_app does not return
CreateAppRaise ==
  /\ app_pc = "loop"
  /\ tid_idx <= Len(task_ids)
  /\ app_pc' = "raised"
  /\ UNCHANGED <<task_ids, tid_idx, retrieved, continued, notApp>>

\* return app
CreateAppReturn ==
  /\ app_pc = "loop"
  /\ tid_idx > Len(task_ids)
  /\ app_pc' = "returned"
  /\ UNCHANGED <<task_ids, tid_idx, retrieved, continued, notApp>>

AppIdle ==
  /\ app_pc = "init"
  /\ task_ids = <<>>
  /\ tid_idx = 1
  /\ retrieved = <<>>
  /\ continued = <<>>

\* Submission rows: top_task_id is NULL or a Task id, one submission per top task
StartupSubmissions(ntasks) ==
  {subs \in UNION {[1..n -> [experiment_id : {1}, program : {"jtui"},
                             top_task_id : 0..ntasks]] : n \in 0..MaxSubmissions} :
     \A a, b \in 1..Len(subs) :
        (a # b /\ subs[a].top_task_id # NULL) => subs[a].top_task_id # subs[b].top_task_id}

\* Task rows: each belongs to a submission, the top task to the one it heads
StartupTasks(subs, ntasks) ==
  {tasks \in [1..ntasks -> [state : TaskStates, submission_id : 1..Len(subs)]] :
     \A s \in 1..Len(subs) :
        subs[s].top_task_id # NULL => tasks[subs[s].top_task_id].submission_id = s}

(* ------------------------- jtui/api.py: run_jobs ----------------------- *)

JobsIdle ==
  /\ req = [r \in Requests |->
              [pc |-> "idle", experiment_id |-> NULL, job_ids |-> {},
               submission_id |-> NULL, jobs |-> None, steps |-> <<>>,
               failed_step |-> "none", response |-> None]]
  /\ saved_projects = {}
  /\ batch_files = {}
  /\ engine_jobs = {}
  /\ status_response = None

\* the statements of run_jobs with store_jobs and submit_jobs exchanged
RunJobsOrder_SubmitBeforeStore ==
  <<"save", "create_batches", "write_batch_files", "commit_submission",
    "create_run_jobs", "submit_jobs", "store_jobs", "return">>

\* the statements of run_jobs, in program order
RunJobsOrder ==
  <<"save", "create_batches", "write_batch_files", "commit_submission",
    "create_run_jobs", "store_jobs", "submit_jobs", "return">>

IndexOf(seq, x) == CHOOSE i \in 1..Len(seq) : seq[i] = x

\* the statement executed after `step` has completed
NextStep(step) ==
  IF IndexOf(RunJobsOrder, step) = Len(RunJobsOrder)
    THEN "done"
    ELSE RunJobsOrder[IndexOf(RunJobsOrder, step) + 1]

\* the request's record once `step` has completed
Advance(r, step) ==
  [req[r] EXCEPT !.pc = NextStep(step), !.steps = Append(@, step)]

\* a run_jobs request arrives: data['jobIds'] and the experiment of the URL
RunJobsRequest(r) ==
  /\ req[r].pc = "idle"
  /\ \E e \in Experiments, ids \in JobIdSets :
       req' = [req EXCEPT ![r] = [@ EXCEPT !.pc = RunJobsOrder[1],
                                           !.experiment_id = e,
                                           !.job_ids = ids]]
  /\ UNCHANGED <<dbVars, saved_projects, batch_files, engine_jobs, status_response, notJobs>>

\* jt.project.save()
RunJobsSave(r) ==
  /\ req[r].pc = "save"
  /\ saved_projects' = saved_projects \cup {req[r].experiment_id}
  /\ req' = [req EXCEPT ![r] = Advance(r, "save")]
  /\ UNCHANGED <<dbVars, batch_files, engine_jobs, status_response, notJobs>>

\* job_descriptions = jt.create_batches(batch_args, job_ids)
RunJobsCreateBatches(r) ==
  /\ req[r].pc = "create_batches"
  /\ req' = [req EXCEPT ![r] = Advance(r, "create_batches")]
  /\ UNCHANGED <<dbVars, saved_projects, batch_files, engine_jobs, status_response, notJobs>>

\* jt.write_batch_files(job_descriptions)
RunJobsWriteBatchFiles(r) ==
  /\ req[r].pc = "write_batch_files"
  /\ batch_files' = batch_files \cup {<<req[r].experiment_id, j>> : j \in req[r].job_ids}
  /\ req' = [req EXCEPT ![r] = Advance(r, "write_batch_files")]
  /\ UNCHANGED <<dbVars, saved_projects, engine_jobs, status_response, notJobs>>

\* the Submission row reused when the experiment already has one
NewSubmission_Reused(subs, e) ==
  IF \E s \in 1..Len(subs) : subs[s].experiment_id = e
    THEN subs
    ELSE Append(subs, [experiment_id |-> e, program |-> "jtui", top_task_id |-> NULL])

\* tm.Submission(experiment_id=experiment.id, program='jtui'), added and committed
NewSubmission(subs, e) ==
  Append(subs, [experiment_id |-> e, program |-> "jtui", top_task_id |-> NULL])

\* db.session.add(submission); db.session.commit(): submission.id is the new row's
RunJobsCommitSubmission(r) ==
  /\ req[r].pc = "commit_submission"
  /\ submission_table' = NewSubmission(submission_table, req[r].experiment_id)
  /\ req' = [req EXCEPT ![r] =
               [Advance(r, "commit_submission") EXCEPT
                  !.submission_id = Len(submission_table')]]
  /\ UNCHANGED <<task_table, saved_projects, batch_files, engine_jobs, status_response, notJobs>>

\* jt.create_run_jobs(submission.id, job_ids, ...): a collection of one run job per id
create_run_jobs(submission_id, job_ids) ==
  [submission_id |-> submission_id, job_ids |-> job_ids, persistent_id |-> NULL]

RunJobsCreateRunJobs(r) ==
  /\ req[r].pc = "create_run_jobs"
  /\ req' = [req EXCEPT ![r] =
               [Advance(r, "create_run_jobs") EXCEPT
                  !.jobs = create_run_jobs(req[r].submission_id, req[r].job_ids)]]
  /\ UNCHANGED <<dbVars, saved_projects, batch_files, engine_jobs, status_response, notJobs>>

\* the Task rows gc3pie.store_jobs writes: the collection, then its run jobs
StoredRows(jobs) ==
  [i \in 1..(1 + Cardinality(jobs.job_ids)) |->
     [state |-> "NEW", submission_id |-> jobs.submission_id]]

\* gc3pie.store_jobs(experiment, jobs)
RunJobsStoreJobs(r) ==
  /\ req[r].pc = "store_jobs"
  /\ task_table' = task_table \o StoredRows(req[r].jobs)
  /\ submission_table' =
       [submission_table EXCEPT ![req[r].jobs.submission_id].top_task_id =
                                    Len(task_table) + 1]
  /\ req' = [req EXCEPT ![r] =
               [Advance(r, "store_jobs") EXCEPT
                  !.jobs.persistent_id = Len(task_table) + 1]]
  /\ UNCHANGED <<saved_projects, batch_files, engine_jobs, status_response, notJobs>>

\* gc3pie.submit_jobs(jobs)
RunJobsSubmitJobs(r) ==
  /\ req[r].pc = "submit_jobs"
  /\ engine_jobs' = engine_jobs \cup {req[r].jobs}
  /\ task_table' =
       IF req[r].jobs.persistent_id = NULL
         THEN task_table
         ELSE [task_table EXCEPT ![req[r].jobs.persistent_id].state = "SUBMITTED"]
  /\ req' = [req EXCEPT ![r] = Advance(r, "submit_jobs")]
  /\ UNCHANGED <<submission_table, saved_projects, batch_files, status_response, notJobs>>

\* return jsonify({'submission_id': jobs.submission_id})
RunJobsReturn(r) ==
  /\ req[r].pc = "return"
  /\ req' = [req EXCEPT ![r] =
               [Advance(r, "return") EXCEPT
                  !.response = [submission_id |-> req[r].jobs.submission_id]]]
  /\ UNCHANGED <<dbVars, saved_projects, batch_files, engine_jobs, status_response, notJobs>>

\* a call of run_jobs raises: the exception leaves the handler
RunJobsRaise(r) ==
  /\ req[r].pc \in Range(RunJobsOrder) \ {"return"}
  /\ req' = [req EXCEPT ![r] = [@ EXCEPT !.pc = "failed", !.failed_step = req[r].pc]]
  /\ UNCHANGED <<dbVars, saved_projects, batch_files, engine_jobs, status_response, notJobs>>

(* ---------------------- jtui/api.py: get_job_status -------------------- *)

\* submissions of the experiment and the program whose jobs were stored
StoredSubmissions(e, program) ==
  {s \in 1..Len(submission_table) :
     /\ submission_table[s].experiment_id = e
     /\ submission_table[s].program = program
     /\ submission_table[s].top_task_id # NULL}

Max(S) == CHOOSE x \in S : \A y \in S : y <= x

\* gc3pie.retrieve_jobs(experiment, program): the jobs last stored, or None
retrieve_jobs(e, program) ==
  IF StoredSubmissions(e, program) = {}
    THEN None
    ELSE [submission_id |-> Max(StoredSubmissions(e, program)),
          persistent_id |->
            submission_table[Max(StoredSubmissions(e, program))].top_task_id]

\* gc3pie.get_status_of_submitted_jobs(jobs)
get_status_of_submitted_jobs(jobs) ==
  [id |-> jobs.persistent_id, state |-> task_table[jobs.persistent_id].state]

\* the jobs looked up under the program name of the workflow, not 'jtui'
get_job_status_WrongProgram(e) ==
  [experiment_id |-> e,
   status |-> IF retrieve_jobs(e, "jterator") = None
                THEN None
                ELSE get_status_of_submitted_jobs(retrieve_jobs(e, "jterator"))]

\* get_job_status(experiment): the JSON response
get_job_status(e) ==
  [experiment_id |-> e,
   status |-> IF retrieve_jobs(e, "jtui") = None
                THEN None
                ELSE get_status_of_submitted_jobs(retrieve_jobs(e, "jtui"))]

GetJobStatus(e) ==
  /\ status_response' = get_job_status(e)
  /\ UNCHANGED <<dbVars, req, saved_projects, batch_files, engine_jobs, notJobs>>

(* ------------------------ jtui/api.py: kill_jobs ----------------------- *)

KillIdle ==
  /\ kill_request = [taskId |-> NULL, known |-> FALSE]
  /\ kill_response = None
  /\ killed = {}

\* ids of the tasks the engine holds
EngineTaskIds == {j.persistent_id : j \in engine_jobs} \ {NULL}

\* kill_jobs(): the response and the tasks passed to engine.kill.  The module
\* defines neither `tasks` nor `engine`: `tasks[persistent_id]` raises NameError,
\* which the handler catches.
kill_jobs(persistent_id) ==
  IF persistent_id # NULL
    THEN [response |-> [success |-> FALSE,
                        error |-> "global name 'tasks' is not defined"],
          kills |-> {}]
    ELSE [response |-> [success |-> FALSE, error |-> "No jobs were specified."],
          kills |-> {}]

KillJobs(tid) ==
  /\ kill_request' = [taskId |-> tid, known |-> tid \in EngineTaskIds]
  /\ kill_response' = kill_jobs(tid).response
  /\ killed' = killed \cup kill_jobs(tid).kills
  /\ UNCHANGED <<dbVars, jobVars, appVars, outVars, repoVars, upVars>>

(* ----------------------- jtui/api.py: text helpers --------------------- *)
\* Strings are sequences of tokens: one token per character, and one per word
\* where no function looks inside the word.

DigitChars == <<"0", "1", "2", "3", "4", "5", "6", "7", "8", "9">>
Digits == Range(DigitChars)
DigitVal(c) == (CHOOSE i \in 1..10 : DigitChars[i] = c) - 1

Min(S) == CHOOSE x \in S : \A y \in S : x <= y

RECURSIVE DecStr(_)
\* '%d' % n
DecStr(n) ==
  IF n < 10 THEN <<DigitChars[n + 1]>>
            ELSE DecStr(n \div 10) \o <<DigitChars[(n % 10) + 1]>>

\* '%.5d' % n for w = 5: at least w digits, zeros in front
PadDigits(n, w) ==
  [i \in 1..(IF Len(DecStr(n)) >= w THEN 0 ELSE w - Len(DecStr(n))) |-> "0"]
    \o DecStr(n)

RECURSIVE ParseInt(_)
\* int(s) of a string of digits
ParseInt(s) ==
  IF Len(s) = 0 THEN 0
  ELSE 10 * ParseInt(SubSeq(s, 1, Len(s) - 1)) + DigitVal(s[Len(s)])

EndsWith(s, suffix) ==
  /\ Len(suffix) <= Len(s)
  /\ SubSeq(s, Len(s) - Len(suffix) + 1, Len(s)) = suffix

\* re.search(r'_(\d+)$', jobname): where the match starts, if there is one
JobNameMatches(jobname) ==
  {i \in 1..Len(jobname) :
     /\ jobname[i] = "_"
     /\ i < Len(jobname)
     /\ \A k \in (i + 1)..Len(jobname) : jobname[k] \in Digits}

\* int(re.search(r'_(\d+)$', jobname).group(1))
JobNameId(jobname) ==
  ParseInt(SubSeq(jobname, Min(JobNameMatches(jobname)) + 1, Len(jobname)))

\* width of '%.5d'
PadWidth == 5

\* glob.glob(os.path.join(log_dir, '*_%.5d.<ext>' % j)), in the order the
\* directory lists its files
GlobJobFiles(listing, j, ext) ==
  SelectSeq([i \in 1..Len(listing) |-> [dir |-> "log_dir", name |-> listing[i]]],
            LAMBDA path : EndsWith(path.name, <<"_">> \o PadDigits(j, PadWidth) \o <<".", ext>>))

\* os.path.basename
basename(path) == path.name

\* re.compile('(.*)_\d+\.'): the places where '_\d+\.' matches in name
ModuleRegexMatches(name) ==
  {i \in 1..Len(name) :
     /\ name[i] = "_"
     /\ \E k \in (i + 2)..Len(name) :
          /\ name[k] = "."
          /\ \A d \in (i + 1)..(k - 1) : name[d] \in Digits}

\* re.match(r, name).group(1): '(.*)' is greedy, so the last place is taken
ModuleOfFile(name) == SubSeq(name, 1, Max(ModuleRegexMatches(name)) - 1)

\* os.path.splitext(name)[0]: name up to its last dot, all of it without one
SplitextRoot(name) ==
  IF {i \in 2..Len(name) : name[i] = "."} = {}
    THEN name
    ELSE SubSeq(name, 1, Max({i \in 2..Len(name) : name[i] = "."}) - 1)

\* open(f).read(): a file's content tells which file it is
Read(path) == [content_of |-> path.name]

\* list_module_names(pipeline)
list_module_names(pipeline) ==
  LET active == SelectSeq(pipeline, LAMBDA m : m.active)
  IN [i \in 1..Len(active) |-> SplitextRoot(SplitextRoot(basename(active[i].handles)))]

(* ---------------------- jtui/api.py: _get_output ----------------------- *)

\* dict(zip(keys, values)): zip stops at the shorter list, a later pair replaces
\* an earlier one with the same key
ZipDict(keys, values) ==
  LET n == IF Len(keys) <= Len(values) THEN Len(keys) ELSE Len(values)
  IN [k \in {keys[i] : i \in 1..n} |-> values[Max({i \in 1..n : keys[i] = k})]]

\* d.get(k, None)
DictGet(d, k) == IF k \in DOMAIN d THEN d[k] ELSE None

\* the job's own stdout and stderr files in subtask.output_dir: '' when missing
JobStdout(pid) == IF pid % 4 \in {2, 3} THEN <<[stdout_of |-> pid]>> ELSE <<>>
JobStderr(pid) == IF pid % 4 \in {0, 3} THEN <<[stderr_of |-> pid]>> ELSE <<>>

\* the 'log' of an entry
JobLog(pid) ==
  IF JobStdout(pid) = <<>> /\ JobStderr(pid) = <<>>
    THEN <<"-- Job is still running --">>
    ELSE JobStdout(pid) \o <<"\n">> \o JobStderr(pid)

\* the 'modules' of the entry of job j
ModuleOutput(listing, j, module_names) ==
  LET stdout_files == GlobJobFiles(listing, j, "out")
      stderr_files == GlobJobFiles(listing, j, "err")
      module_file == [i \in 1..Len(stdout_files) |-> ModuleOfFile(basename(stdout_files[i]))]
      module_stdout ==
        ZipDict(module_file, [i \in 1..Len(stdout_files) |-> Read(stdout_files[i])])
      module_stderr ==
        ZipDict(module_file, [i \in 1..Len(stderr_files) |-> Read(stderr_files[i])])
  IN [i \in 1..Len(module_names) |->
        [name |-> module_names[i],
         stdout |-> DictGet(module_stdout, module_names[i]),
         stderr |-> DictGet(module_stderr, module_names[i])]]

\* the entry appended for one RunJob
OutputEntry(subtask, listing, module_names) ==
  [id |-> JobNameId(subtask.jobname),
   submissionId |-> task_table[subtask.persistent_id].submission_id,
   name |-> subtask.jobname,
   log |-> JobLog(subtask.persistent_id),
   modules |-> ModuleOutput(listing, JobNameId(subtask.jobname), module_names),
   failed |-> task_table[subtask.persistent_id].exitcode # 0]

RECURSIVE Flatten(_)
Flatten(seqs) == IF Len(seqs) = 0 THEN <<>> ELSE Head(seqs) \o Flatten(Tail(seqs))

\* the subtasks the two loops reach, with the type test of the outer loop dropped
RunJobsOf_AnyTask(jobs) ==
  SelectSeq(Flatten([i \in 1..Len(jobs.tasks) |-> jobs.tasks[i].tasks]),
            LAMBDA subtask : subtask.type = "RunJob")

\* the subtasks the two loops reach: the RunJobs of the RunJobCollections
RunJobsOf(jobs) ==
  SelectSeq(Flatten([i \in 1..Len(jobs.tasks) |->
                       IF jobs.tasks[i].type = "RunJobCollection"
                         THEN jobs.tasks[i].tasks ELSE <<>>]),
            LAMBDA subtask : subtask.type = "RunJob")

\* _get_output(jobs, log_dir, figures_dir, module_names): the list it returns, or
\* the exception it raises
get_output(jobs, listing, module_names) ==
  IF jobs = None
    THEN [raised |-> "AttributeError",
          message |-> "'NoneType' object has no attribute 'iter_workflow'"]
  ELSE IF \E i \in 1..Len(RunJobsOf(jobs)) : JobNameMatches(RunJobsOf(jobs)[i].jobname) = {}
    THEN [raised |-> "AttributeError",
          message |-> "'NoneType' object has no attribute 'group'"]
  ELSE [raised |-> "none",
        value |-> [i \in 1..Len(RunJobsOf(jobs)) |->
                     OutputEntry(RunJobsOf(jobs)[i], listing, module_names)]]

(* --------------------- jtui/api.py: get_job_output --------------------- *)

\* the try block of get_job_output: gc3pie.retrieve_jobs, then _get_output
TryOutput(retrieve, jobs, listing, module_names) ==
  IF retrieve = "returns"
    THEN get_output(jobs, listing, module_names)
    ELSE [raised |-> retrieve, message |-> "retrieve_jobs failed"]

\* get_job_output with `except Exception` left out
get_job_output_NoCatchAll(retrieve, jobs, listing, pipeline) ==
  LET result == TryOutput(retrieve, jobs, listing, list_module_names(pipeline))
  IN IF result.raised = "none"
       THEN [keys |-> {"output"}, output |-> [array |-> result.value]]
     ELSE IF result.raised = "IndexError"
       THEN [keys |-> {"output"}, output |-> None]
     ELSE [keys |-> {}, propagated |-> result.raised]

\* get_job_output(experiment): the JSON response, with the keys it has; a JSON
\* array is held in a record, which tells it from null
get_job_output(retrieve, jobs, listing, pipeline) ==
  LET result == TryOutput(retrieve, jobs, listing, list_module_names(pipeline))
  IN IF result.raised = "none"
       THEN [keys |-> {"output"}, output |-> [array |-> result.value]]
     ELSE IF result.raised = "IndexError"
       THEN [keys |-> {"output"}, output |-> None]
     ELSE [keys |-> {"output", "error"}, output |-> None, error |-> result.message]

\* names of the modules of the pipelines requests describe
Modules == {<<"a">>, <<"b", "_", "2">>}
\* ids of the jobs whose module logs the directory may hold
JobIds == {1, 2}
\* the log file a module writes for a job
LogFileName(m, j, ext) == m \o <<"_">> \o PadDigits(j, PadWidth) \o <<".", ext>>
\* the handles file of a module
HandlesPath(m) == [dir |-> "handles", name |-> m \o <<".", "handles", ".", "yaml">>]

LogFiles == {LogFileName(m, j, ext) : m \in Modules, j \in JobIds, ext \in {"out", "err"}}

SeqsUpTo(S, n) == UNION {[1..k -> S] : k \in 0..n}

\* pipeline descriptions: each module at most once, active or not
Pipelines ==
  {pl \in SeqsUpTo([handles : {HandlesPath(m) : m \in Modules}, active : BOOLEAN],
                   MaxModules) :
     \A i, j \in 1..Len(pl) : pl[i].handles = pl[j].handles => i = j}

\* what iter_tasks() yields: a run job, a run job whose name has no '_<digits>'
\* at its end, a task of another type
SubtaskKinds == {"RunJob", "RunJobBadName", "Other"}

\* the number in the name of the run job with persistent id pid: not the id itself
JobNumber(pid) == IF pid % 2 = 1 THEN pid + 1 ELSE pid - 1

\* names as 'r_02' and 'r_7_1'
RunJobName(pid) ==
  IF pid % 2 = 1 THEN <<"r", "_">> \o PadDigits(JobNumber(pid), 2)
                 ELSE <<"r", "_", "7", "_">> \o DecStr(JobNumber(pid))

\* subtask k of the task at place i of a workflow
Subtask(kind, i, k) ==
  [type |-> IF kind = "Other" THEN "Other" ELSE "RunJob",
   jobname |-> IF kind = "RunJob" THEN RunJobName((i - 1) * MaxWorkflowSize + k)
               ELSE IF kind = "RunJobBadName" THEN <<"r", "_", "x">>
               ELSE <<"o">>,
   persistent_id |-> (i - 1) * MaxWorkflowSize + k]

RECURSIVE TaskSeqs(_, _)
\* the sequences of tasks that hold n tasks and subtasks in all, the first task at
\* place i of the workflow
TaskSeqs(n, i) ==
  IF n = 0 THEN {<<>>}
  ELSE UNION {
         {<<[type |-> type,
             tasks |-> [k \in 1..(size - 1) |-> Subtask(kinds[k], i, k)]]>> \o rest :
            type \in {"RunJobCollection", "Other"},
            kinds \in [1..(size - 1) -> SubtaskKinds],
            rest \in TaskSeqs(n - size, i + 1)} :
         size \in 1..n}

\* the workflows the store may hold for an experiment
Workflows ==
  {None} \cup {[tasks |-> ts] : ts \in UNION {TaskSeqs(n, 1) : n \in 0..MaxWorkflowSize}}

OutputIdle ==
  /\ out_workflow = None
  /\ log_dir = {}
  /\ output_request = None
  /\ output_response = None

\* One request is followed per behaviour: the handler changes nothing that a later
\* request reads.  retrieve_jobs returns the stored workflow or raises; the directory
\* lists its files in any order.
GetJobOutput ==
  /\ output_response = None
  /\ \E retrieve \in {"returns", "IndexError", "OperationalError"},
        listing \in Orderings(log_dir),
        pipeline \in Pipelines :
       /\ output_request' = [retrieve |-> retrieve, pipeline |-> pipeline]
       /\ output_response' = get_job_output(retrieve, out_workflow, listing, pipeline)
  /\ UNCHANGED <<dbVars, appVars, jobVars, killVars, out_workflow, log_dir, repoVars, upVars>>

(* --------------- jtui/api.py: get_available_jtpipelines ---------------- *)

RepoIdle ==
  /\ repo_pipes = <<>>
  /\ pipelines_response = None

\* get_available_jtpipelines(): the list comprehension's result is replaced by []
get_available_jtpipelines(project_dirs) ==
  LET pipes == [i \in 1..Len(project_dirs) |-> basename(project_dirs[i])]
  IN [jtpipelines |-> <<>>]

GetAvailableJtpipelines ==
  /\ pipelines_response' = get_available_jtpipelines(repo_pipes)
  /\ UNCHANGED <<dbVars, appVars, jobVars, killVars, outVars, repo_pipes, upVars>>

(* ------------- tmserver/experiment/upload.py: file upload -------------- *)

\* tmlib.models.status.FileUploadStatus
FileUploadStatus == {"WAITING", "UPLOADING", "COMPLETE", "FAILED"}

\* ids of the acquisitions of the experiment
Acquisitions == {1, 2}

\* file names are sequences of characters
ImageSuffix == <<".", "t">>
MetadataSuffix == <<".", "x">>

\* the file names clients send
UploadNames ==
  { <<"d", "/", "a", ".", "t">>,
    <<"d", "_", "a", ".", "t">>,
    <<"m", ".", "x">>,
    <<"n", ".", "o">> }

\* the values of data['files'] register_upload is called with
RegisterFiles == {fs \in SeqsUpTo(UploadNames, MaxRegisterFiles) : \A i, j \in 1..Len(fs) : fs[i] = fs[j] => i = j}

\* request.files.get('file'): None, or a file with a name
UploadForms == {None} \cup {[filename |-> n] : n \in UploadNames}

\* imgfile_regex.search(f), metadata_regex.search(f) for the experiment's microscope type
ImgfileRegexSearch(f) == EndsWith(f, ImageSuffix)
MetadataRegexSearch(f) == EndsWith(f, MetadataSuffix)

\* str.split(): the whitespace-separated words of s
RECURSIVE SplitWords(_)
SplitWords(s) ==
  IF s = <<>> THEN <<>>
  ELSE IF Head(s) = " " THEN SplitWords(Tail(s))
  ELSE LET stops == {i \in 1..Len(s) : s[i] = " "}
           n == IF stops = {} THEN Len(s) ELSE Min(stops) - 1
       IN <<SubSeq(s, 1, n)>> \o SplitWords(SubSeq(s, n + 1, Len(s)))

\* '_'.join(words)
RECURSIVE JoinWords(_)
JoinWords(words) ==
  IF words = <<>> THEN <<>>
  ELSE IF Len(words) = 1 THEN words[1]
  ELSE words[1] \o <<"_">> \o JoinWords(Tail(words))

\* str.strip('._')
RECURSIVE StripDotsUnderscores(_)
StripDotsUnderscores(s) ==
  IF s = <<>> THEN <<>>
  ELSE IF Head(s) \in {".", "_"} THEN StripDotsUnderscores(Tail(s))
  ELSE IF s[Len(s)] \in {".", "_"} THEN StripDotsUnderscores(SubSeq(s, 1, Len(s) - 1))
  ELSE s

\* werkzeug.secure_filename: path separators become blanks, words are joined
\* with '_', leading and trailing dots and underscores are stripped
secure_filename(filename) ==
  LET spaced == [i \in 1..Len(filename) |-> IF filename[i] = "/" THEN " " ELSE filename[i]]
  IN StripDotsUnderscores(JoinWords(SplitWords(spaced)))

\* [f.name for f in acquisition.microscope_image_files] and its metadata twin
FileNamesOf(table, kind, acquisition_id) ==
  {table[i].name : i \in {j \in 1..Len(table) :
                            table[j].kind = kind /\ table[j].acquisition_id = acquisition_id}}

\* the rows one list comprehension of register_upload creates
RECURSIVE NewFileRows(_, _, _, _)
NewFileRows(files, kind, acquisition_id, known) ==
  IF files = <<>> THEN <<>>
  ELSE LET f == Head(files)
           matches == IF kind = "image" THEN ImgfileRegexSearch(f) ELSE MetadataRegexSearch(f)
           rest == NewFileRows(Tail(files), kind, acquisition_id, known)
       IN IF matches /\ secure_filename(f) \notin known
          THEN <<[kind |-> kind, name |-> secure_filename(f),
                  acquisition_id |-> acquisition_id, status |-> "WAITING"]>> \o rest
          ELSE rest

\* register_upload: the rows session.bulk_save_objects(img_files + meta_files) adds
register_upload(table, acquisition_id, files) ==
  NewFileRows(files, "image", acquisition_id, FileNamesOf(table, "image", acquisition_id))
    \o NewFileRows(files, "metadata", acquisition_id,
                   FileNamesOf(table, "metadata", acquisition_id))

\* acquisition.status: the upload status of the acquisition's files taken together
AcquisitionStatus(table, acquisition_id) ==
  LET child_status == {table[i].status : i \in {j \in 1..Len(table) :
                                                  table[j].acquisition_id = acquisition_id}}
  IN IF "UPLOADING" \in child_status THEN "UPLOADING"
     ELSE IF child_status = {"COMPLETE"} THEN "COMPLETE"
     ELSE "WAITING"

\* a lookup that forgets the acquisition
FilterBy_AnyAcquisition(table, kind, name, acquisition_id) ==
  {i \in 1..Len(table) : table[i].kind = kind /\ table[i].name = name}

\* session.query(<kind>).filter_by(name=filename, acquisition_id=acquisition_id)
FilterBy(table, kind, name, acquisition_id) ==
  {i \in 1..Len(table) :
     table[i].kind = kind /\ table[i].name = name /\ table[i].acquisition_id = acquisition_id}

Response(error, message) == [error |-> error, message |-> message]

\* upload_file up to session.commit(): the response, or the row whose upload starts
upload_file(table, acquisition_id, f) ==
  IF f = None
  THEN [response |-> Response("MalformedRequestError", "Missing file entry in this request."),
        file_obj |-> NULL]
  ELSE IF AcquisitionStatus(table, acquisition_id) = "COMPLETE"
  THEN [response |-> Response("", "Acquisition complete"), file_obj |-> NULL]
  ELSE
    LET filename == secure_filename(f.filename)
        imgfiles == FilterBy(table, "image", filename, acquisition_id)
        metafiles == FilterBy(table, "metadata", filename, acquisition_id)
    IN IF Cardinality(imgfiles) > 1 \/ Cardinality(metafiles) > 1
       THEN [response |-> Response("MultipleResultsFound", ""), file_obj |-> NULL]
       ELSE IF imgfiles = {} /\ metafiles = {}
       THEN [response |-> Response("MalformedRequestError", "File was not registered"),
             file_obj |-> NULL]
       ELSE
         LET file_obj == IF imgfiles # {} THEN CHOOSE i \in imgfiles : TRUE
                         ELSE CHOOSE i \in metafiles : TRUE
         IN IF table[file_obj].status = "COMPLETE"
            THEN [response |-> Response("", "File already uploaded"), file_obj |-> NULL]
            ELSE IF table[file_obj].status = "UPLOADING"
            THEN [response |-> Response("", "File upload already in progress"),
                  file_obj |-> NULL]
            ELSE [response |-> None, file_obj |-> file_obj]

UploadIdle ==
  /\ file_table = <<>>
  /\ disk = {}
  /\ saving = {}
  /\ upload_seq = 0
  /\ upload_request = None
  /\ upload_response = None

notUpload == <<dbVars, appVars, jobVars, killVars, outVars, repoVars>>

\* PUT .../acquisitions/<acquisition_id>/upload/register
RegisterUpload(acquisition_id, files) ==
  /\ upload_seq < MaxUploadRequests
  /\ upload_seq' = upload_seq + 1
  /\ upload_request' = [op |-> "register", acquisition_id |-> acquisition_id, files |-> files]
  /\ IF Len(files) = 0
     THEN /\ upload_response' =
               Response("MalformedRequestError", "No files supplied. Cannot register upload.")
          /\ UNCHANGED file_table
     ELSE /\ Len(file_table) + Len(register_upload(file_table, acquisition_id, files))
               <= MaxFileRows
          /\ file_table' = file_table \o register_upload(file_table, acquisition_id, files)
          /\ upload_response' = Response("", "ok")
  /\ UNCHANGED <<disk, saving, notUpload>>

\* POST .../acquisitions/<acquisition_id>/upload/upload-file, up to session.commit()
UploadFile(acquisition_id, f) ==
  /\ upload_seq < MaxUploadRequests
  /\ upload_seq' = upload_seq + 1
  /\ upload_request' = [op |-> "upload", acquisition_id |-> acquisition_id,
                        files |-> IF f = None THEN <<>> ELSE <<f.filename>>]
  /\ LET r == upload_file(file_table, acquisition_id, f)
     IN /\ upload_response' = r.response
        /\ IF r.file_obj = NULL
           THEN UNCHANGED <<file_table, saving>>
           ELSE /\ file_table' = [file_table EXCEPT ![r.file_obj].status = "UPLOADING"]
                /\ saving' = saving \cup {r.file_obj}
  /\ UNCHANGED <<disk, notUpload>>

\* f.save(file_obj.location) returns: the file is on disk, the row is COMPLETE
UploadSaved(file_obj) ==
  /\ file_obj \in saving
  /\ saving' = saving \ {file_obj}
  /\ disk' = disk \cup {<<file_table[file_obj].acquisition_id, file_table[file_obj].kind,
                          file_table[file_obj].name>>}
  /\ file_table' = [file_table EXCEPT ![file_obj].status = "COMPLETE"]
  /\ upload_response' = Response("", "ok")
  /\ UNCHANGED <<upload_seq, upload_request, notUpload>>

\* f.save raises: the row is set to FAILED and InternalServerError leaves the
\* session block, which either keeps the assignment or rolls it back
UploadSaveFailed(file_obj) ==
  /\ file_obj \in saving
  /\ saving' = saving \ {file_obj}
  /\ \E status \in {"FAILED", "UPLOADING"} :
       file_table' = [file_table EXCEPT ![file_obj].status = status]
  /\ upload_response' = Response("InternalServerError", "Upload of file failed")
  /\ UNCHANGED <<disk, upload_seq, upload_request, notUpload>>

(* --------------------------- specifications ---------------------------- *)

\* the database a previous run of the server left behind
InitStartup ==
  /\ \E ntasks \in 0..MaxTasks :
       \E subs \in StartupSubmissions(ntasks) :
         /\ submission_table = subs
         /\ task_table \in StartupTasks(subs, ntasks)
  /\ AppIdle
  /\ JobsIdle
  /\ KillIdle
  /\ OutputIdle
  /\ RepoIdle
  /\ UploadIdle

NextStartup ==
  \/ CreateAppQuery
  \/ CreateAppContinue
  \/ CreateAppRaise
  \/ CreateAppReturn

vars == <<dbVars, appVars, jobVars, killVars, outVars, repoVars, upVars>>

\* server start-up on the database of a previous run
SpecStartup == InitStartup /\ [][NextStartup]_vars

\* a fresh server
Init ==
  /\ submission_table = <<>>
  /\ task_table = <<>>
  /\ AppIdle
  /\ JobsIdle
  /\ KillIdle
  /\ OutputIdle
  /\ RepoIdle
  /\ UploadIdle

Next ==
  \/ \E r \in Requests : RunJobsRequest(r)
  \/ \E r \in Requests : RunJobsSave(r)
  \/ \E r \in Requests : RunJobsCreateBatches(r)
  \/ \E r \in Requests : RunJobsWriteBatchFiles(r)
  \/ \E r \in Requests : RunJobsCommitSubmission(r)
  \/ \E r \in Requests : RunJobsCreateRunJobs(r)
  \/ \E r \in Requests : RunJobsStoreJobs(r)
  \/ \E r \in Requests : RunJobsSubmitJobs(r)
  \/ \E r \in Requests : RunJobsReturn(r)
  \/ \E r \in Requests : RunJobsRaise(r)
  \/ \E e \in Experiments : GetJobStatus(e)

\* run_jobs and get_job_status requests on a running server
Spec == Init /\ [][Next]_vars

NextKill ==
  \/ \E r \in Requests : RunJobsRequest(r)
  \/ \E r \in Requests : RunJobsSave(r)
  \/ \E r \in Requests : RunJobsCreateBatches(r)
  \/ \E r \in Requests : RunJobsWriteBatchFiles(r)
  \/ \E r \in Requests : RunJobsCommitSubmission(r)
  \/ \E r \in Requests : RunJobsCreateRunJobs(r)
  \/ \E r \in Requests : RunJobsStoreJobs(r)
  \/ \E r \in Requests : RunJobsSubmitJobs(r)
  \/ \E r \in Requests : RunJobsReturn(r)
  \/ \E r \in Requests : RunJobsRaise(r)
  \/ \E tid \in {NULL} \cup 1..Len(task_table) : KillJobs(tid)

\* run_jobs and kill_jobs requests on a running server
SpecKill == Init /\ [][NextKill]_vars

\* the Task rows of the jobs of a workflow: row p is the job with persistent id p
OutputTaskRows ==
  [p \in 1..(MaxWorkflowSize * MaxWorkflowSize) |->
     [state |-> "TERMINATED", submission_id |-> 1 + (p % 2), exitcode |-> p % 2]]

\* a stored workflow and the module logs its jobs have written so far
InitOutput ==
  /\ submission_table =
       [s \in 1..2 |-> [experiment_id |-> 1, program |-> "jtui", top_task_id |-> NULL]]
  /\ task_table = OutputTaskRows
  /\ out_workflow \in Workflows
  /\ log_dir \in {fs \in SUBSET LogFiles : Cardinality(fs) <= MaxFiles}
  /\ output_request = None
  /\ output_response = None
  /\ AppIdle
  /\ JobsIdle
  /\ KillIdle
  /\ RepoIdle
  /\ UploadIdle

NextOutput == GetJobOutput

\* get_job_output requests on a stored workflow
SpecOutput == InitOutput /\ [][NextOutput]_vars

\* names of the project directories of the repository
PipelineNames == {<<"jterator_", n>> : n \in {"p1", "p2", "p3", "p4", "p5"}}

\* the project directories list_projects finds, in the order it lists them
InitRepo ==
  /\ repo_pipes \in {ps \in SeqsUpTo({[dir |-> "repo/pipes", name |-> n] : n \in PipelineNames},
                                     MaxPipelines) :
                        \A i, j \in 1..Len(ps) : ps[i] = ps[j] => i = j}
  /\ pipelines_response = None
  /\ submission_table = <<>>
  /\ task_table = <<>>
  /\ AppIdle
  /\ JobsIdle
  /\ KillIdle
  /\ OutputIdle
  /\ UploadIdle

NextRepo == GetAvailableJtpipelines

\* get_available_jtpipelines requests on a repository
SpecRepo == InitRepo /\ [][NextRepo]_vars

\* register_upload and upload_file requests on the acquisitions of an experiment
InitUpload ==
  /\ UploadIdle
  /\ submission_table = <<>>
  /\ task_table = <<>>
  /\ AppIdle
  /\ JobsIdle
  /\ KillIdle
  /\ OutputIdle
  /\ RepoIdle

NextUpload ==
  \/ \E acquisition_id \in Acquisitions : \E files \in RegisterFiles :
       RegisterUpload(acquisition_id, files)
  \/ \E acquisition_id \in Acquisitions : \E f \in UploadForms :
       UploadFile(acquisition_id, f)
  \/ \E file_obj \in 1..MaxFileRows : UploadSaved(file_obj)
  \/ \E file_obj \in 1..MaxFileRows : UploadSaveFailed(file_obj)

SpecUpload == InitUpload /\ [][NextUpload]_vars

(* ------------------------------ claims --------------------------------- *)

IsPrefix(s, t) == Len(s) <= Len(t) /\ \A i \in 1..Len(s) : s[i] = t[i]

\* how often create_app passed the task with id t to gc3pie.continue_task
TimesContinued(t) == Cardinality({k \in 1..Len(continued) : continued[k].persistent_id = t})

NotResumable == {"STOPPED", "TERMINATED", "TERMINATING"}

C3_RunJobsStepsInOrder ==
  LET order == <<"save", "create_batches", "write_batch_files", "commit_submission",
                 "create_run_jobs", "store_jobs", "submit_jobs", "return">>
  IN /\ \A r \in Requests :
          /\ IsPrefix(req[r].steps, order)
          /\ req[r].failed_step # "none" =>
               /\ req[r].pc = "failed"
               /\ Len(req[r].steps) < Len(order)
               /\ order[Len(req[r].steps) + 1] = req[r].failed_step
     /\ \A j \in engine_jobs :
          /\ j.persistent_id \in 1..Len(task_table)
          /\ submission_table[j.submission_id].top_task_id = j.persistent_id
          /\ submission_table[j.submission_id].experiment_id \in saved_projects

\* one request responded and another stopped at a call that raised after the
\* Submission was committed
C3_Witness ==
  \E r1, r2 \in Requests :
    /\ req[r1].pc = "done"
    /\ req[r2].failed_step = "store_jobs"
    /\ engine_jobs # {}

\* C4: a run_jobs request that responded answered with the id of a Submission row of
\* its experiment and program 'jtui', the job collection it submitted carries that id,
\* no other request answered with the same id, and every request added exactly one
\* Submission row.
C4_OneSubmissionPerRequest ==
  /\ \A r \in Requests :
       req[r].pc = "done" =>
         /\ req[r].response.submission_id \in 1..Len(submission_table)
         /\ submission_table[req[r].response.submission_id].experiment_id
              = req[r].experiment_id
         /\ submission_table[req[r].response.submission_id].program = "jtui"
         /\ \E j \in engine_jobs :
              /\ j.submission_id = req[r].response.submission_id
              /\ j.job_ids = req[r].job_ids
         /\ \A r2 \in Requests \ {r} :
              req[r2].pc = "done" =>
                req[r2].response.submission_id # req[r].response.submission_id
  /\ Len(submission_table) =
       Cardinality({r \in Requests : "commit_submission" \in Range(req[r].steps)})
  /\ Cardinality(engine_jobs) =
       Cardinality({r \in Requests : "submit_jobs" \in Range(req[r].steps)})

\* two requests for the same experiment have both responded
C4_Witness ==
  \E r1, r2 \in Requests :
    /\ r1 # r2
    /\ req[r1].pc = "done"
    /\ req[r2].pc = "done"
    /\ req[r1].experiment_id = req[r2].experiment_id

OwnLog(module, j, ext) ==
  IF LogFileName(module, j, ext) \in log_dir
    THEN [content_of |-> LogFileName(module, j, ext)]
    ELSE None

\* C6: in every job entry of the output, the stdout and the stderr of a module are
\* the contents of the module's own .out and .err file for that job, and null where
\* the directory has no such file.
C6_ModuleLogsFromOwnFiles ==
  (output_response # None /\ output_response.output # None) =>
    \A i \in 1..Len(output_response.output.array) :
      \A k \in 1..Len(output_response.output.array[i].modules) :
        LET entry == output_response.output.array[i]
            module == entry.modules[k]
        IN /\ module.stdout = OwnLog(module.name, entry.id, "out")
           /\ module.stderr = OwnLog(module.name, entry.id, "err")

\* the places <<i, k>> of the RunJobs inside the RunJobCollections of the workflow
RunJobPlaces ==
  {p \in (1..MaxWorkflowSize) \X (1..MaxWorkflowSize) :
     /\ p[1] <= Len(out_workflow.tasks)
     /\ out_workflow.tasks[p[1]].type = "RunJobCollection"
     /\ p[2] <= Len(out_workflow.tasks[p[1]].tasks)
     /\ out_workflow.tasks[p[1]].tasks[p[2]].type = "RunJob"}

\* the rank of a place in iteration order
PlaceRank(p) ==
  1 + Cardinality({q \in RunJobPlaces : q[1] < p[1] \/ (q[1] = p[1] /\ q[2] < p[2])})

\* C7: the output has one entry per RunJob inside a RunJobCollection, in iteration
\* order, and nothing else; an entry's name is the job's name, its id the number
\* written after the last '_' of the name, its submissionId the submission_id of the
\* Task row with the job's persistent id, and its modules name the active modules of
\* the pipeline, one each, in pipeline order.
C7_OneEntryPerRunJob ==
  (output_response # None /\ output_response.output # None) =>
    LET out == output_response.output.array
        active == SelectSeq(output_request.pipeline, LAMBDA m : m.active)
    IN /\ Len(out) = Cardinality(RunJobPlaces)
       /\ \A p \in RunJobPlaces :
            LET job == out_workflow.tasks[p[1]].tasks[p[2]]
                entry == out[PlaceRank(p)]
            IN /\ entry.name = job.jobname
               /\ \E w \in 1..Len(job.jobname) :
                    EndsWith(job.jobname, <<"_">> \o PadDigits(entry.id, w))
               /\ entry.submissionId = task_table[job.persistent_id].submission_id
               /\ Len(entry.modules) = Len(active)
               /\ \A i \in 1..Len(active) :
                    HandlesPath(entry.modules[i].name) = active[i].handles

\* two jobs are listed for a pipeline with an active and an inactive module
C7_Witness ==
  /\ output_response # None
  /\ output_response.output # None
  /\ Len(output_response.output.array) = 2
  /\ output_response.output.array[1].id # output_response.output.array[2].id
  /\ Len(output_request.pipeline) = 2
  /\ Len(output_response.output.array[1].modules) = 1

\* C8: get_job_output always responds: with output null and no error after an
\* IndexError, with output null and the message as error after any other exception,
\* with the output list otherwise; without stored jobs the output is null.
C8_OutputExceptionsHandled ==
  output_response # None =>
    /\ "output" \in output_response.keys
    /\ output_request.retrieve = "IndexError" =>
         /\ output_response.keys = {"output"}
         /\ output_response.output = None
    /\ output_request.retrieve = "OperationalError" =>
         /\ output_response.keys = {"output", "error"}
         /\ output_response.output = None
         /\ output_response.error = "retrieve_jobs failed"
    /\ (output_request.retrieve = "returns" /\ out_workflow = None) =>
         output_response.output = None
    /\ (/\ output_request.retrieve = "returns"
        /\ out_workflow # None
        /\ \A p \in RunJobPlaces :
             \E w \in 1..2, n \in 0..(MaxWorkflowSize * MaxWorkflowSize + 1) :
               EndsWith(out_workflow.tasks[p[1]].tasks[p[2]].jobname,
                        <<"_">> \o PadDigits(n, w))) =>
         /\ output_response.keys = {"output"}
         /\ output_response.output # None

\* no jobs are stored, retrieve_jobs returned None and the response has output null
C8_Witness ==
  /\ output_response # None
  /\ output_request.retrieve = "returns"
  /\ out_workflow = None
  /\ output_response.output = None
  /\ "error" \in output_response.keys

\* C9: kill_jobs with the id of a task the engine holds kills the task and answers
\* success true; without a taskId it kills nothing and answers success false with the
\* error 'No jobs were specified.'.
C9_KillJobsKillsKnownTask ==
  kill_response # None =>
    /\ kill_request.known =>
         /\ kill_response.success = TRUE
         /\ kill_request.taskId \in killed
    /\ kill_request.taskId = NULL =>
         /\ kill_response.success = FALSE
         /\ kill_response.error = "No jobs were specified."
         /\ killed = {}

\* C10: get_available_jtpipelines answers with the base names of the project
\* directories under <JTUI_REPO_DIR_LOCATION>/pipes, a non-empty list when there
\* is one.
C10_PipelinesListed ==
  pipelines_response # None =>
    /\ pipelines_response.jtpipelines =
         [i \in 1..Len(repo_pipes) |-> repo_pipes[i].name]
    /\ repo_pipes # <<>> => pipelines_response.jtpipelines # <<>>

\* the acquisition has a MicroscopeImageFile or MicroscopeMetadataFile row of that name
IsRegistered(table, acquisition_id, name) ==
  \E i \in 1..Len(table) :
    table[i].acquisition_id = acquisition_id /\ table[i].name = name

\* the step is an upload_file request that carries a file whose name has no row
\* in the acquisition
UnregisteredUpload ==
  /\ upload_seq' = upload_seq + 1
  /\ upload_request'.op = "upload"
  /\ upload_request'.files # <<>>
  /\ ~IsRegistered(file_table, upload_request'.acquisition_id,
                   secure_filename(upload_request'.files[1]))

NothingUploaded ==
  /\ disk' = disk
  /\ file_table' = file_table
  /\ saving' = saving

\* C11 as stated: upload_file for a file name that has no row in the acquisition
\* raises MalformedRequestError 'File was not registered', writes nothing to disk
\* and changes no file's status.
C11_UnregisteredUploadRaises ==
  [][UnregisteredUpload =>
       /\ upload_response' = Response("MalformedRequestError", "File was not registered")
       /\ NothingUploaded]_vars

\* C11 (amended): upload_file for a file name that has no row in the acquisition
\* writes nothing to disk and changes no file's status; it raises
\* MalformedRequestError 'File was not registered' unless the acquisition's status
\* is COMPLETE, and then it answers 'Acquisition complete'.
C11_UnregisteredUploadRejected ==
  [][UnregisteredUpload =>
       /\ NothingUploaded
       /\ upload_response' =
            IF AcquisitionStatus(file_table, upload_request'.acquisition_id) = "COMPLETE"
            THEN Response("", "Acquisition complete")
            ELSE Response("MalformedRequestError", "File was not registered")]_vars

\* C11 witness: a file registered and uploaded in one acquisition was refused, as
\* not registered, in another acquisition
C11_Witness ==
  /\ upload_request # None
  /\ upload_request.op = "upload"
  /\ upload_request.files # <<>>
  /\ upload_response = Response("MalformedRequestError", "File was not registered")
  /\ ~IsRegistered(file_table, upload_request.acquisition_id,
                   secure_filename(upload_request.files[1]))
  /\ \E i \in 1..Len(file_table) :
       /\ file_table[i].name = secure_filename(upload_request.files[1])
       /\ file_table[i].acquisition_id # upload_request.acquisition_id
       /\ file_table[i].status = "COMPLETE"
  /\ disk # {}
  /\ saving = {}

====
